---- MODULE Spec2Model ----
(***************************************************************************)
(* groq-format: the document algebra and renderer (src/src/doc.rs), the    *)
(* style rules (src/src/format.rs), format_query (src/src/lib.rs) and      *)
(* process_file (src/src/main.rs).                                         *)
(*                                                                         *)
(* A string is a sequence of characters; a character is a one-element     *)
(* TLA+ string, or a "U+XXXX" name for a character outside ASCII or a      *)
(* control character.  Rust's str::len() is the UTF-8 byte length.         *)
(***************************************************************************)
EXTENDS Integers, Sequences, FiniteSets, TLC

VARIABLES
    pc,        \* position in the modelled function
    tree,      \* format_query: the parsed expression (lib.rs:49)
    width,     \* the width argument
    document,  \* format_query: the document of the style rules, `doc` (lib.rs:51)
    items,     \* pretty: the work stack, top is the last element (doc.rs:114)
    output,    \* pretty: the output buffer (doc.rs:112)
    col,       \* pretty: the column counter (doc.rs:113)
    open,      \* history: the Groups whose subtree is still being rendered
    ev,        \* history: what the last render step did
    lineFlat,  \* history: the first Flat Group with a direct break on the current
               \*   output line, as its number among the Groups decided (0: none)
    ngroups,   \* history: the number of Groups decided so far
    query,     \* format_query: the query argument (lib.rs:42)
    trimmed,   \* format_query: the trimmed query (lib.rs:43)
    result,    \* format_query: the returned Result (lib.rs:42)
    target,    \* process_file: content of the file at `path`
    temp,      \* process_file: the NamedTempFile (main.rs:66)
    formatted, \* process_file: the formatted text (main.rs:61)
    write,     \* process_file: the write argument (main.rs:59)
    path       \* process_file: the path argument (main.rs:59)

vars == <<pc, tree, width, document, items, output, col, open, ev, lineFlat, ngroups,
          query, trimmed, result, target, temp, formatted, write, path>>

-----------------------------------------------------------------------------
(* Bounds of the model *)

MaxWidth == 16
MaxMembers == 2
MaxOperands == 3
MaxFunctions == 2
MaxQueryLen == 3

-----------------------------------------------------------------------------
(* Characters and strings *)

NL == "\n"
SP == " "

\* str::len() of one character: its UTF-8 encoded length (doc.rs:124, 129)
Utf8Len(c) ==
    CASE c = "U+00E9" -> 2
      [] c = "U+1F30D" -> 4
      [] OTHER -> 1

RECURSIVE len(_)
\* String::len(): the byte length of a string (doc.rs:124)
len(s) == IF Len(s) = 0 THEN 0 ELSE Utf8Len(Head(s)) + len(Tail(s))

\* spaces(n) (doc.rs:224)
spaces(n) == [i \in 1..n |-> SP]

-----------------------------------------------------------------------------
(* The document algebra: doc.rs:12-95 *)

Nil == [t |-> "Nil"]
Text(s) == [t |-> "Text", s |-> s]
Line(space) == [t |-> "Line", space |-> space]
Nest(indent, doc) == [t |-> "Nest", indent |-> indent, doc |-> doc]
Group(doc) == [t |-> "Group", doc |-> doc]
Concat(left, right) == [t |-> "Concat", left |-> left, right |-> right]

\* Doc::text (doc.rs:29)
text(s) == IF Len(s) = 0 THEN Nil ELSE Text(s)
\* Doc::line (doc.rs:39)
line == Line(<<SP>>)
\* Doc::line_or_empty (doc.rs:46)
line_or_empty == Line(<<>>)
\* Doc::nest (doc.rs:53)
nest(indent, doc) == Nest(indent, doc)
\* Doc::group (doc.rs:61)
group(doc) == Group(doc)

\* One turn of the fold in Doc::concat (doc.rs:69-78)
concat2(res, doc) ==
    IF res.t = "Nil" THEN doc
    ELSE IF doc.t = "Nil" THEN res
    ELSE Concat(res, doc)

RECURSIVE concatFrom(_, _, _)
concatFrom(res, docs, i) ==
    IF i > Len(docs) THEN res
    ELSE concatFrom(concat2(res, docs[i]), docs, i + 1)

\* Doc::concat (doc.rs:66)
concat(docs) == concatFrom(Nil, docs, 1)

RECURSIVE joinFrom(_, _, _, _)
joinFrom(res, sep, docs, i) ==
    IF i > Len(docs) THEN res
    ELSE joinFrom(concat(<<res, sep, docs[i]>>), sep, docs, i + 1)

\* Doc::join (doc.rs:84)
join(sep, docs) ==
    IF Len(docs) = 0 THEN Nil ELSE joinFrom(docs[1], sep, docs, 2)

-----------------------------------------------------------------------------
(* The fits check: doc.rs:183-222 *)

Push(stack, x) == Append(stack, x)
Top(stack) == stack[Len(stack)]
Pop(stack) == SubSeq(stack, 1, Len(stack) - 1)

\* What one turn of the loop pushes for (current_doc, current_mode) (doc.rs:205-217)
FitsPush(rest, d, m) ==
    CASE d.t = "Nest" -> Push(rest, [doc |-> d.doc, mode |-> m])
      [] d.t = "Concat" ->
            Push(Push(rest, [doc |-> d.right, mode |-> m]),
                 [doc |-> d.left, mode |-> m])
      [] d.t = "Group" -> Push(rest, [doc |-> d.doc, mode |-> "Flat"])
      [] OTHER -> rest

\* FitsCost with the flat substitute of a Potential-break left uncharged
FitsCost_LineFree(d, m) ==
    CASE d.t = "Text" -> len(d.s)
      [] OTHER -> 0

\* What one turn of the loop charges to remaining_width (doc.rs:190-204)
FitsCost(d, m) ==
    CASE d.t = "Text" -> len(d.s)
      [] d.t = "Line" -> IF m = "Flat" THEN len(d.space) ELSE 0
      [] OTHER -> 0

RECURSIVE FitsLoop(_, _)
\* The while loop of fits_doc (doc.rs:187-221)
FitsLoop(stack, remaining_width) ==
    IF Len(stack) = 0 THEN TRUE
    ELSE LET cur == Top(stack)
             cost == FitsCost(cur.doc, cur.mode)
         IN  IF cost > remaining_width THEN FALSE
             ELSE FitsLoop(FitsPush(Pop(stack), cur.doc, cur.mode),
                           remaining_width - cost)

\* fits_doc (doc.rs:183)
fits_doc(w, doc, mode) == FitsLoop(<<[doc |-> doc, mode |-> mode]>>, w)

\* usize::saturating_sub (doc.rs:158)
saturating_sub(a, b) == IF a > b THEN a - b ELSE 0

RECURSIVE FitsPushed(_, _)
\* The entries the loop of fits_doc pushes on its stack after the first, in the
\* order of the pushes, up to its return (doc.rs:187-221)
FitsPushed(stack, remaining_width) ==
    IF Len(stack) = 0 THEN <<>>
    ELSE LET cur == Top(stack)
             cost == FitsCost(cur.doc, cur.mode)
             next == FitsPush(Pop(stack), cur.doc, cur.mode)
         IN  IF cost > remaining_width THEN <<>>
             ELSE SubSeq(next, Len(stack), Len(next))
                  \o FitsPushed(next, remaining_width - cost)

\* Every entry a call of fits_doc puts on its stack, the first included
\* (doc.rs:184, 207, 211-212, 216)
fits_stack_entries(w, doc, mode) ==
    LET first == <<[doc |-> doc, mode |-> mode]>>
    IN  first \o FitsPushed(first, w)

-----------------------------------------------------------------------------
(* The style rules: format.rs *)

\* Token::literal() of the operator tokens the model uses (format.rs:163, 187, 194)
literal(tok) ==
    CASE tok = "And" -> <<"&", "&">>
      [] tok = "Or" -> <<"|", "|">>
      [] tok = "Colon" -> <<":">>
      [] tok = "Eq" -> <<"=", "=">>
      [] tok = "Not" -> <<"!">>
      [] tok = "Arrow" -> <<"-", ">">>
      [] tok = "AscOperator" -> <<"a", "s", "c">>
      [] tok = "DescOperator" -> <<"d", "e", "s", "c">>

\* char::is_control for the characters of the model (format.rs:129)
is_control(c) == c \in {"U+0001", "\n", "\r", "\t"}

\* format!("\\u{:04x}", c as u32) for the control characters of the model (format.rs:130)
hex_escape(c) ==
    CASE c = "U+0001" -> <<"\\", "u", "0", "0", "0", "1">>
      [] c = "\n" -> <<"\\", "u", "0", "0", "0", "a">>
      [] c = "\r" -> <<"\\", "u", "0", "0", "0", "d">>
      [] c = "\t" -> <<"\\", "u", "0", "0", "0", "9">>

\* One turn of the loop of escape_string (format.rs:123-133)
escape_char(ch) ==
    CASE ch = "\"" -> <<"\\", "\"">>
      [] ch = "\\" -> <<"\\", "\\">>
      [] ch = "\n" -> <<"\\", "n">>
      [] ch = "\r" -> <<"\\", "r">>
      [] ch = "\t" -> <<"\\", "t">>
      [] OTHER -> IF is_control(ch) THEN hex_escape(ch) ELSE <<ch>>

RECURSIVE escape_string(_)
\* escape_string (format.rs:120)
escape_string(s) ==
    IF Len(s) = 0 THEN <<>> ELSE escape_char(Head(s)) \o escape_string(Tail(s))

Digit(n) == <<"0", "1", "2", "3", "4", "5", "6", "7", "8", "9">>[n + 1]

RECURSIVE to_string(_)
\* i64::to_string of a natural number (format.rs:113)
to_string(n) ==
    IF n < 10 THEN <<Digit(n)>> ELSE to_string(n \div 10) \o <<Digit(n % 10)>>

\* format_float (format.rs:138); a float is its whole part and its fraction digits,
\* and format!("{}", value) prints the fraction only when there is one
format_float(value) ==
    LET s == IF Len(value.frac) = 0 THEN to_string(value.whole)
             ELSE to_string(value.whole) \o <<".">> \o value.frac
    IN  IF \E i \in 1..Len(s) : s[i] \in {".", "e", "E"} THEN s
        ELSE s \o <<".", "0">>

\* format_literal (format.rs:110)
format_literal(lit) ==
    CASE lit.lit = "String" -> text(<<"\"">> \o escape_string(lit.value) \o <<"\"">>)
      [] lit.lit = "Integer" -> text(to_string(lit.value))
      [] lit.lit = "Float" -> text(format_float(lit.value))
      [] lit.lit = "Boolean" ->
            text(IF lit.value THEN <<"t", "r", "u", "e">>
                 ELSE <<"f", "a", "l", "s", "e">>)
      [] lit.lit = "Null" -> text(<<"n", "u", "l", "l">>)

RECURSIVE format_expr(_)

\* format_dot (format.rs:148)
format_dot(dot) ==
    LET lhs == format_expr(dot.lhs)
        rhs == format_expr(dot.rhs)
    IN  IF dot.lhs.k = "Postfix" /\ dot.lhs.operator = "Arrow"
        THEN concat(<<lhs, rhs>>)
        ELSE concat(<<lhs, text(<<".">>), rhs>>)

\* format_binary with the continuation of a logical operator left unindented
format_binary_NoNest(bin) ==
    LET op == literal(bin.operator)
        left == format_expr(bin.lhs)
        right == format_expr(bin.rhs)
    IN  IF bin.operator = "And" \/ bin.operator = "Or"
        THEN group(concat(<<left, concat(<<line, text(op \o <<SP>>), right>>)>>))
        ELSE IF bin.operator = "Colon"
        THEN concat(<<left, text(<<":", SP>>), right>>)
        ELSE concat(<<left, text(<<SP>> \o op \o <<SP>>), right>>)

\* format_binary (format.rs:162)
format_binary(bin) ==
    LET op == literal(bin.operator)
        left == format_expr(bin.lhs)
        right == format_expr(bin.rhs)
    IN  IF bin.operator = "And" \/ bin.operator = "Or"
        THEN group(concat(<<left,
                 nest(2, concat(<<line, text(op \o <<SP>>), right>>))>>))
        ELSE IF bin.operator = "Colon"
        THEN concat(<<left, text(<<":", SP>>), right>>)
        ELSE concat(<<left, text(<<SP>> \o op \o <<SP>>), right>>)

\* format_prefix (format.rs:186)
format_prefix(prefix) ==
    concat(<<text(literal(prefix.operator)), format_expr(prefix.rhs)>>)

\* format_postfix (format.rs:192)
format_postfix(postfix) ==
    LET operand == format_expr(postfix.lhs)
        op == literal(postfix.operator)
        op_text == IF postfix.operator = "AscOperator"
                      \/ postfix.operator = "DescOperator"
                   THEN <<SP>> \o op ELSE op
    IN  concat(<<operand, text(op_text)>>)

\* The separator Doc::concat([Doc::text(","), Doc::line()]) (format.rs:104, 219, 235, 250)
CommaLine == concat(<<text(<<",">>), line>>)

\* format_function_call with the closing parenthesis put before the last break
format_function_call_BreakLast(func) ==
    LET name == IF Len(func.namespace) = 0 THEN func.name
                ELSE func.namespace \o <<":", ":">> \o func.name
        args == [i \in 1..Len(func.arguments) |-> format_expr(func.arguments[i])]
        arg_list == join(CommaLine, args)
    IN  IF Len(func.arguments) = 0 THEN text(name \o <<"(", ")">>)
        ELSE group(concat(<<text(name \o <<"(">>),
                            nest(2, concat(<<line_or_empty, arg_list>>)),
                            text(<<")">>),
                            line_or_empty>>))

\* format_function_call (format.rs:207)
format_function_call(func) ==
    LET name == IF Len(func.namespace) = 0 THEN func.name
                ELSE func.namespace \o <<":", ":">> \o func.name
        args == [i \in 1..Len(func.arguments) |-> format_expr(func.arguments[i])]
        arg_list == join(CommaLine, args)
    IN  IF Len(func.arguments) = 0 THEN text(name \o <<"(", ")">>)
        ELSE group(concat(<<text(name \o <<"(">>),
                            nest(2, concat(<<line_or_empty, arg_list>>)),
                            line_or_empty,
                            text(<<")">>)>>))

\* format_array (format.rs:229)
format_array(arr) ==
    LET elems == [i \in 1..Len(arr.expressions) |-> format_expr(arr.expressions[i])]
        content == join(CommaLine, elems)
    IN  IF Len(arr.expressions) = 0 THEN text(<<"[", "]">>)
        ELSE concat(<<text(<<"[">>),
                      group(nest(2, concat(<<line_or_empty, content>>))),
                      text(<<"]">>)>>)

\* format_object_field (format.rs:260)
format_object_field(expr) ==
    CASE expr.k = "Binary" /\ expr.operator = "Colon" ->
            concat(<<format_expr(expr.lhs), text(<<":", SP>>), format_expr(expr.rhs)>>)
      [] expr.k = "Attribute" -> text(expr.name)
      [] expr.k = "Ellipsis" -> text(<<".", ".", ".">>)
      [] OTHER -> format_expr(expr)

\* format_object without the early return for an object of no members
format_object_NoEmptyCase(obj) ==
    LET fields == [i \in 1..Len(obj.expressions) |->
                      format_object_field(obj.expressions[i])]
        content == join(CommaLine, fields)
    IN  group(concat(<<text(<<"{">>),
                       nest(2, concat(<<line, content>>)),
                       line,
                       text(<<"}">>)>>))

\* format_object (format.rs:244)
format_object(obj) ==
    LET fields == [i \in 1..Len(obj.expressions) |->
                      format_object_field(obj.expressions[i])]
        content == join(CommaLine, fields)
    IN  IF Len(obj.expressions) = 0 THEN text(<<"{", "}">>)
        ELSE group(concat(<<text(<<"{">>),
                            nest(2, concat(<<line, content>>)),
                            line,
                            text(<<"}">>)>>))

\* format_range (format.rs:273)
format_range(range) ==
    LET op == IF range.inclusive THEN <<".", ".">> ELSE <<".", ".", ".">>
    IN  concat(<<format_expr(range.start), text(op), format_expr(range.end)>>)

\* The Pipe and FunctionPipe arms of format_expr (format.rs:73-88)
format_pipe(lhs, rhs) ==
    group(concat(<<lhs, nest(2, concat(<<line, text(<<"|", SP>>), rhs>>))>>))

\* format_expr (format.rs:39)
format_expr(expr) ==
    CASE expr.k = "Everything" -> text(<<"*">>)
      [] expr.k = "This" -> text(<<"@">>)
      [] expr.k = "Parent" -> text(<<"^">>)
      [] expr.k = "Literal" -> format_literal(expr)
      [] expr.k = "Attribute" -> text(expr.name)
      [] expr.k = "Param" -> text(<<"$">> \o expr.name)
      [] expr.k = "Filter" ->
            concat(<<format_expr(expr.lhs),
                     group(concat(<<text(<<"[">>), format_expr(expr.constraint)>>)),
                     text(<<"]">>)>>)
      [] expr.k = "Slice" ->
            concat(<<format_expr(expr.lhs), text(<<"[">>),
                     format_expr(expr.range), text(<<"]">>)>>)
      [] expr.k = "Element" ->
            concat(<<format_expr(expr.lhs), text(<<"[">>),
                     format_expr(expr.idx), text(<<"]">>)>>)
      [] expr.k = "ArrayTraversal" ->
            concat(<<format_expr(expr.expr), text(<<"[", "]">>)>>)
      [] expr.k = "Dot" -> format_dot(expr)
      [] expr.k = "Projection" ->
            concat(<<format_expr(expr.lhs), text(<<SP>>), format_object(expr.object)>>)
      [] expr.k = "Pipe" -> format_pipe(format_expr(expr.lhs), format_expr(expr.rhs))
      [] expr.k = "FunctionPipe" ->
            format_pipe(format_expr(expr.lhs), format_function_call(expr.func))
      [] expr.k = "Binary" -> format_binary(expr)
      [] expr.k = "Prefix" -> format_prefix(expr)
      [] expr.k = "Postfix" -> format_postfix(expr)
      [] expr.k = "FunctionCall" -> format_function_call(expr)
      [] expr.k = "Array" -> format_array(expr)
      [] expr.k = "Object" -> format_object(expr)
      [] expr.k = "Group" ->
            concat(<<text(<<"(">>), format_expr(expr.expression), text(<<")">>)>>)
      [] expr.k = "Range" -> format_range(expr)
      [] expr.k = "Ellipsis" -> text(<<".", ".", ".">>)
      [] expr.k = "Constraint" -> format_expr(expr.expression)
      [] expr.k = "Subscript" -> format_expr(expr.value)
      [] expr.k = "Tuple" ->
            LET members == [i \in 1..Len(expr.members) |-> format_expr(expr.members[i])]
                content == join(CommaLine, members)
            IN  concat(<<text(<<"(">>), group(content), text(<<")">>)>>)

\* format_function_definition (format.rs:22)
format_function_definition(func) ==
    LET name == func.namespace \o <<":", ":">> \o func.name
        params == [i \in 1..Len(func.parameters) |-> <<"$">> \o func.parameters[i]]
        RECURSIVE joinStr(_)
        joinStr(i) == IF i > Len(params) THEN <<>>
                      ELSE (IF i = 1 THEN <<>> ELSE <<",", SP>>) \o params[i]
                           \o joinStr(i + 1)
        params_str == joinStr(1)
    IN  concat(<<text(<<"f", "n", SP>> \o name \o <<"(">> \o params_str
                      \o <<")", SP, "=", SP>>),
                 format_expr(func.body),
                 text(<<";">>)>>)

\* format_parse_result (format.rs:7)
format_parse_result(res) ==
    IF Len(res.functions) = 0 THEN format_expr(res.expr)
    ELSE LET func_docs == [i \in 1..Len(res.functions) |->
                              format_function_definition(res.functions[i])]
             funcs == join(text(<<NL>>), func_docs)
         IN  concat(<<funcs, text(<<NL, NL>>), format_expr(res.expr)>>)

-----------------------------------------------------------------------------
(* The renderer: doc.rs:111-177 *)

Item(indent, mode, doc) == [indent |-> indent, mode |-> mode, doc |-> doc]

\* The seed of the work stack (doc.rs:114-118)
SeedItems(doc) == <<Item(0, "Flat", doc)>>

\* FitsCall with the check started in the mode of the popped item
FitsCall_ItemMode(w, c, item) ==
    [width |-> saturating_sub(w, c), doc |-> item.doc.doc, mode |-> item.mode]

\* The arguments of the Group arm's call of fits_doc (doc.rs:158)
FitsCall(w, c, item) ==
    [width |-> saturating_sub(w, c), doc |-> item.doc.doc, mode |-> "Flat"]

\* GroupMode with a Group inside a broken Group breaking too
GroupMode_Inherit(w, c, item) ==
    LET call == FitsCall(w, c, item)
    IN  IF item.mode = "Break" THEN "Break"
        ELSE IF fits_doc(call.width, call.doc, call.mode) THEN "Flat"
        ELSE "Break"

\* The Group arm's choice of mode (doc.rs:156-171)
GroupMode(w, c, item) ==
    LET call == FitsCall(w, c, item)
    IN  IF fits_doc(call.width, call.doc, call.mode) THEN "Flat" ELSE "Break"

\* The Text arm (doc.rs:123-126)
TextArm(st, item) ==
    [st EXCEPT !.col = st.col + len(item.doc.s),
               !.output = st.output \o item.doc.s]

\* The Line arm (doc.rs:127-136)
LineArm(st, item) ==
    IF item.mode = "Flat"
    THEN [st EXCEPT !.col = st.col + len(item.doc.space),
                    !.output = st.output \o item.doc.space]
    ELSE [st EXCEPT !.output = (st.output \o <<NL>>) \o spaces(item.indent),
                    !.col = item.indent]

\* NestArm with the Nest's amount replacing the indentation around it
NestArm_Replace(st, item) ==
    [st EXCEPT !.items =
        Push(st.items, Item(item.doc.indent, item.mode, item.doc.doc))]

\* The Nest arm (doc.rs:137-143)
NestArm(st, item) ==
    [st EXCEPT !.items =
        Push(st.items, Item(item.indent + item.doc.indent, item.mode, item.doc.doc))]

\* ConcatArm with the left part pushed first, below the right part
ConcatArm_LeftFirst(st, item) ==
    [st EXCEPT !.items =
        Push(Push(st.items, Item(item.indent, item.mode, item.doc.left)),
             Item(item.indent, item.mode, item.doc.right))]

\* The Concat arm (doc.rs:144-155)
ConcatArm(st, item) ==
    [st EXCEPT !.items =
        Push(Push(st.items, Item(item.indent, item.mode, item.doc.right)),
             Item(item.indent, item.mode, item.doc.left))]

\* GroupArm with the Group's child pushed in the mode of the popped item
GroupArm_KeepMode(w, st, item) ==
    [st EXCEPT !.items = Push(st.items, Item(item.indent, item.mode, item.doc.doc))]

\* The Group arm (doc.rs:156-172)
GroupArm(w, st, item) ==
    [st EXCEPT !.items =
        Push(st.items, Item(item.indent, GroupMode(w, st.col, item), item.doc.doc))]

\* One turn of the loop of pretty: pop an item and dispatch on its document
\* (doc.rs:120-174); st is [items, output, col]
RenderStep(w, st) ==
    LET item == Top(st.items)
        popped == [st EXCEPT !.items = Pop(st.items)]
    IN  CASE item.doc.t = "Nil" -> popped
          [] item.doc.t = "Text" -> TextArm(popped, item)
          [] item.doc.t = "Line" -> LineArm(popped, item)
          [] item.doc.t = "Nest" -> NestArm(popped, item)
          [] item.doc.t = "Concat" -> ConcatArm(popped, item)
          [] item.doc.t = "Group" -> GroupArm(w, popped, item)

RECURSIVE RenderLoop(_, _)
\* The loop of pretty run to its end (doc.rs:120-176)
RenderLoop(w, st) ==
    IF Len(st.items) = 0 THEN st.output ELSE RenderLoop(w, RenderStep(w, st))

\* pretty (doc.rs:111)
pretty(w, doc) == RenderLoop(w, [items |-> SeedItems(doc), output |-> <<>>, col |-> 0])

-----------------------------------------------------------------------------
(* Expression trees: the shapes of groq_parser::ast that format.rs reads *)

Everything == [k |-> "Everything"]
Attr(name) == [k |-> "Attribute", name |-> name]
Param(name) == [k |-> "Param", name |-> name]
Str(value) == [k |-> "Literal", lit |-> "String", value |-> value]
IntLit(value) == [k |-> "Literal", lit |-> "Integer", value |-> value]
Float(whole, frac) ==
    [k |-> "Literal", lit |-> "Float", value |-> [whole |-> whole, frac |-> frac]]
Bool(value) == [k |-> "Literal", lit |-> "Boolean", value |-> value]
Null == [k |-> "Literal", lit |-> "Null"]
Bin(operator, lhs, rhs) ==
    [k |-> "Binary", operator |-> operator, lhs |-> lhs, rhs |-> rhs]
Prefix(operator, rhs) == [k |-> "Prefix", operator |-> operator, rhs |-> rhs]
Postfix(operator, lhs) == [k |-> "Postfix", operator |-> operator, lhs |-> lhs]
Obj(expressions) == [k |-> "Object", expressions |-> expressions]
Arr(expressions) == [k |-> "Array", expressions |-> expressions]
Tup(members) == [k |-> "Tuple", members |-> members]
Call(namespace, name, arguments) ==
    [k |-> "FunctionCall", namespace |-> namespace, name |-> name,
     arguments |-> arguments]
Filter(lhs, constraint) == [k |-> "Filter", lhs |-> lhs, constraint |-> constraint]
Proj(lhs, object) == [k |-> "Projection", lhs |-> lhs, object |-> object]
Pipe(lhs, rhs) == [k |-> "Pipe", lhs |-> lhs, rhs |-> rhs]
FPipe(lhs, func) == [k |-> "FunctionPipe", lhs |-> lhs, func |-> func]
Paren(expression) == [k |-> "Group", expression |-> expression]
Dot(lhs, rhs) == [k |-> "Dot", lhs |-> lhs, rhs |-> rhs]

\* The operands the generated trees are made of: attributes of one and two
\* characters, a string literal holding a two-byte character, a string literal
\* holding a newline, an integer
AtomList ==
    << Attr(<<"a">>), Attr(<<"b", "b">>), Str(<<"U+00E9">>),
       Attr(<<"c">>), Str(<<"x", NL>>), IntLit(12) >>

Atom(i) == AtomList[((i - 1) % Len(AtomList)) + 1]

\* n operands, starting at the off-th
Operands(n, off) == [i \in 1..n |-> Atom(i + off)]

\* The collections of n members
Collections(n) ==
    << Obj(Operands(n, 0)), Arr(Operands(n, 1)), Tup(Operands(n, 2)),
       Call(<<>>, <<"f">>, Operands(n, 0)) >>

RECURSIVE LeftChain(_, _)
\* The left-nested chain of n operands: ((a op b) op c) ...
LeftChain(op, n) ==
    IF n = 1 THEN Atom(1)
    ELSE CASE op = "Pipe" -> Pipe(LeftChain(op, n - 1), Atom(n))
           [] op = "FunctionPipe" ->
                 FPipe(LeftChain(op, n - 1), Call(<<>>, <<"g">>, <<>>))
           [] OTHER -> Bin(op, LeftChain(op, n - 1), Atom(n))

ChainOps == <<"And", "Or", "Pipe", "FunctionPipe">>

Chains(n) == [i \in 1..Len(ChainOps) |-> LeftChain(ChainOps[i], n)]

RECURSIVE Flatten(_)
\* The concatenation of a sequence of sequences
Flatten(ss) == IF Len(ss) = 0 THEN <<>> ELSE Head(ss) \o Flatten(Tail(ss))

\* Atoms, collections of 0..MaxMembers members, chains of 2..MaxOperands operands
BaseTrees ==
    AtomList
    \o Flatten([n \in 1..(MaxMembers + 1) |-> Collections(n - 1)])
    \o Flatten([n \in 1..(MaxOperands - 1) |-> Chains(n + 1)])

\* Each base tree inside a filter, an object field, an array, a projection
\* under a two-level object, a call, and as the middle operand of a chain
Wrapped(x) ==
    << Filter(Everything, x),
       Obj(<<Bin("Colon", Attr(<<"a">>), x), Attr(<<"b", "b">>)>>),
       Arr(<<x, Attr(<<"a">>)>>),
       Proj(Postfix("Arrow", Attr(<<"a">>)),
            Obj(<<Bin("Colon", Attr(<<"k">>), Obj(<<x>>))>>)),
       Call(<<"n">>, <<"f">>, <<x, Obj(<<>>)>>),
       Bin("And", Bin("And", Attr(<<"a">>), x), Arr(<<>>)) >>

\* One tree for each remaining arm of format_expr
OtherTrees ==
    << [k |-> "This"], [k |-> "Parent"], Param(<<"p">>), Float(1, <<>>),
       Float(2, <<"5">>), Bool(TRUE), Bool(FALSE), Null,
       Str(<<"\"", "\\", "\r", "\t", "U+0001", "U+1F30D">>),
       [k |-> "Slice", lhs |-> Attr(<<"a">>),
        range |-> [k |-> "Range", start |-> IntLit(0), end |-> IntLit(5),
                   inclusive |-> TRUE]],
       [k |-> "Range", start |-> IntLit(1), end |-> IntLit(2), inclusive |-> FALSE],
       [k |-> "Element", lhs |-> Attr(<<"a">>), idx |-> IntLit(0)],
       [k |-> "ArrayTraversal", expr |-> Attr(<<"a">>)],
       Dot(Attr(<<"a">>), Attr(<<"b">>)),
       Dot(Postfix("Arrow", Attr(<<"a">>)), Attr(<<"b">>)),
       Prefix("Not", Attr(<<"a">>)),
       Postfix("DescOperator", Attr(<<"a">>)),
       Postfix("AscOperator", Attr(<<"a">>)),
       Bin("Eq", Attr(<<"a">>), IntLit(1)),
       Paren(Bin("Or", Attr(<<"a">>), Attr(<<"b">>))),
       [k |-> "Constraint", expression |-> Attr(<<"a">>)],
       [k |-> "Subscript", value |-> IntLit(3)],
       Obj(<<[k |-> "Ellipsis"], Arr(<<[k |-> "Ellipsis"]>>)>>) >>

\* The expression trees format_query is run on
Trees ==
    BaseTrees
    \o Flatten([i \in 1..Len(BaseTrees) |-> Wrapped(BaseTrees[i])])
    \o OtherTrees

-----------------------------------------------------------------------------
(* Measures of a document used to state the properties *)

MaxOf(a, b) == IF a > b THEN a ELSE b

RECURSIVE FlatLen(_)
\* The flat rendering length: all text plus all flat substitutes of the subtree
FlatLen(d) ==
    CASE d.t = "Text" -> len(d.s)
      [] d.t = "Line" -> len(d.space)
      [] d.t = "Nest" -> FlatLen(d.doc)
      [] d.t = "Group" -> FlatLen(d.doc)
      [] d.t = "Concat" -> FlatLen(d.left) + FlatLen(d.right)
      [] OTHER -> 0

RECURSIVE DirectLines(_)
\* The number of Potential-breaks directly inside d, not inside a nested Group
DirectLines(d) ==
    CASE d.t = "Line" -> 1
      [] d.t = "Nest" -> DirectLines(d.doc)
      [] d.t = "Concat" -> DirectLines(d.left) + DirectLines(d.right)
      [] OTHER -> 0

RECURSIVE HasText(_)
\* Whether d holds a Literal-text node
HasText(d) ==
    CASE d.t = "Text" -> TRUE
      [] d.t = "Nest" -> HasText(d.doc)
      [] d.t = "Group" -> HasText(d.doc)
      [] d.t = "Concat" -> HasText(d.left) \/ HasText(d.right)
      [] OTHER -> FALSE

RECURSIVE LineChars(_)
\* The number of characters of out since its last newline (or its start)
LineChars(out) ==
    IF Len(out) = 0 \/ out[Len(out)] = NL THEN 0
    ELSE 1 + LineChars(SubSeq(out, 1, Len(out) - 1))

RECURSIVE MaxLineFrom(_, _, _, _)
MaxLineFrom(out, i, cur, best) ==
    IF i > Len(out) THEN MaxOf(cur, best)
    ELSE IF out[i] = NL THEN MaxLineFrom(out, i + 1, 0, MaxOf(cur, best))
    ELSE MaxLineFrom(out, i + 1, cur + 1, best)

\* The number of characters of the longest line of out
MaxLineChars(out) == MaxLineFrom(out, 1, 0, 0)

RECURSIVE ForcedLoop(_, _, _, _)
\* The loop of pretty with the k-th Group it decides rendered in Break mode
\* whatever the fits check says; n Groups are decided already
ForcedLoop(w, st, n, k) ==
    IF Len(st.items) = 0 THEN st.output
    ELSE LET item == Top(st.items)
         IN  IF item.doc.t # "Group" THEN ForcedLoop(w, RenderStep(w, st), n, k)
             ELSE IF n + 1 # k THEN ForcedLoop(w, RenderStep(w, st), n + 1, k)
             ELSE ForcedLoop(w,
                      [st EXCEPT !.items =
                          Push(Pop(st.items),
                               Item(item.indent, "Break", item.doc.doc))],
                      n + 1, k)

\* What pretty would return had its k-th Group been broken
PrettyBroken(w, d, k) ==
    ForcedLoop(w, [items |-> SeedItems(d), output |-> <<>>, col |-> 0], 0, k)

\* The open Groups whose child is still on a stack of height h
Prune(groups, h) == SelectSeq(groups, LAMBDA g : g.base < h)

-----------------------------------------------------------------------------
(* format_query from the parsed tree on: lib.rs:51-52 and the loop of pretty *)

NoTree == [k |-> "None"]
NoEvent ==
    [kind |-> "None", newline |-> FALSE, encl |-> <<>>, mode |-> "Flat",
     flatLen |-> 0, at |-> 0, indent |-> 0, lineFlat |-> 0, chars |-> 0,
     budget |-> 0, fits |-> FALSE, pushed |-> <<>>, np |-> 0, node |-> Nil]
NoResult == [kind |-> "None", text |-> <<>>]
NoTemp == [exists |-> FALSE, dir |-> "", data |-> <<>>]
NoPath == [dir |-> "", name |-> ""]

RenderIdle ==
    /\ document = Nil /\ items = <<>> /\ output = <<>> /\ col = 0
    /\ open = <<>> /\ ev = NoEvent /\ lineFlat = 0 /\ ngroups = 0

QueryIdle == query = <<>> /\ trimmed = <<>> /\ result = NoResult

FileIdle ==
    /\ target = <<>> /\ temp = NoTemp /\ formatted = <<>> /\ write = FALSE
    /\ path = NoPath

renderVars == <<document, items, output, col, open, ev, lineFlat, ngroups>>
queryVars == <<query, trimmed, result>>
fileVars == <<target, temp, formatted, write, path>>

Init ==
    /\ pc = "parsed"
    /\ \E i \in 1..Len(Trees) : tree = Trees[i]
    /\ width \in 0..MaxWidth
    /\ RenderIdle /\ QueryIdle /\ FileIdle

\* let doc = format_expr(&tree) (lib.rs:51)
Format ==
    /\ pc = "parsed"
    /\ document' = format_expr(tree)
    /\ pc' = "formatted"
    /\ UNCHANGED <<tree, width, items, output, col, open, ev, lineFlat, ngroups>>
    /\ UNCHANGED queryVars /\ UNCHANGED fileVars

\* The call doc::pretty(width, doc) up to the loop (lib.rs:52, doc.rs:112-118)
Seed ==
    /\ pc = "formatted"
    /\ items' = SeedItems(document)
    /\ output' = <<>>
    /\ col' = 0
    /\ pc' = "render"
    /\ UNCHANGED <<tree, width, document, open, ev, lineFlat, ngroups>>
    /\ UNCHANGED queryVars /\ UNCHANGED fileVars

\* One turn of the loop of pretty on an item whose document is of variant kind
Step(kind) ==
    /\ LET item == Top(items)
           st == RenderStep(width, [items |-> items, output |-> output, col |-> col])
           emitted == SubSeq(st.output, Len(output) + 1, Len(st.output))
           newline == \E i \in 1..Len(emitted) : emitted[i] = NL
           mode == IF kind = "Group" THEN Top(st.items).mode ELSE item.mode
           call == FitsCall(width, col, item)
           entry == [base |-> Len(items) - 1,
                     fits |-> FlatLen(item.doc.doc) <= MaxOf(width - col, 0),
                     mode |-> mode,
                     direct |-> DirectLines(item.doc.doc) > 0,
                     n |-> ngroups + 1]
       IN  /\ items' = st.items
           /\ output' = st.output
           /\ col' = st.col
           /\ ev' = [kind |-> kind, newline |-> newline, encl |-> open,
                     mode |-> mode,
                     flatLen |-> IF kind = "Group" THEN FlatLen(item.doc.doc) ELSE 0,
                     at |-> col, indent |-> item.indent, lineFlat |-> lineFlat,
                     chars |-> LineChars(output),
                     budget |-> IF kind = "Group" THEN call.width ELSE 0,
                     fits |-> kind = "Group"
                              /\ fits_doc(call.width, call.doc, call.mode),
                     pushed |-> IF kind = "Group"
                                THEN [i \in 1..Len(fits_stack_entries(
                                          call.width, call.doc, call.mode)) |->
                                      LET e == fits_stack_entries(
                                                   call.width, call.doc, call.mode)[i]
                                      IN  [t |-> e.doc.t, mode |-> e.mode]]
                                ELSE <<>>,
                     np |-> ev.np + 1, node |-> item.doc]
           /\ open' = Prune(IF kind = "Group" THEN Append(open, entry) ELSE open,
                            Len(st.items))
           /\ ngroups' = IF kind = "Group" THEN ngroups + 1 ELSE ngroups
           /\ lineFlat' = IF newline THEN 0
                          ELSE IF kind = "Group" /\ mode = "Flat" /\ entry.direct
                                  /\ lineFlat = 0
                          THEN ngroups + 1
                          ELSE lineFlat
    /\ UNCHANGED <<pc, tree, width, document>>
    /\ UNCHANGED queryVars /\ UNCHANGED fileVars

\* while let Some(item) = items.pop(), match item.doc (doc.rs:120-121)
Popped(kind) == pc = "render" /\ Len(items) > 0 /\ Top(items).doc.t = kind

\* Doc::Nil => {} (doc.rs:122)
StepNil == Popped("Nil") /\ Step("Nil")
\* Doc::Text(s) (doc.rs:123)
StepText == Popped("Text") /\ Step("Text")
\* Doc::Line { space } (doc.rs:127)
StepLine == Popped("Line") /\ Step("Line")
\* Doc::Nest { indent, doc } (doc.rs:137)
StepNest == Popped("Nest") /\ Step("Nest")
\* Doc::Concat { left, right } (doc.rs:144)
StepConcat == Popped("Concat") /\ Step("Concat")
\* Doc::Group(doc) (doc.rs:156)
StepGroup == Popped("Group") /\ Step("Group")

\* The loop ends on an empty stack and pretty returns output (doc.rs:120, 176)
Return ==
    /\ pc = "render"
    /\ Len(items) = 0
    /\ pc' = "done"
    /\ UNCHANGED <<tree, width>>
    /\ UNCHANGED renderVars /\ UNCHANGED queryVars /\ UNCHANGED fileVars

Next ==
    \/ Format
    \/ Seed
    \/ StepNil
    \/ StepText
    \/ StepLine
    \/ StepNest
    \/ StepConcat
    \/ StepGroup
    \/ Return

Spec == Init /\ [][Next]_vars

-----------------------------------------------------------------------------
(* The claims *)

Innermost(groups) == groups[Len(groups)]

\* C1: width respect at every Group decision.  A Group reached at column c whose
\* flat rendering length is <= max(width - c, 0) has no newline emitted anywhere
\* inside it; in any other Group every Potential-break directly inside it is
\* emitted as a newline.  (Lengths and the column are as the renderer counts them.)
C1_WidthRespect ==
    /\ ev.newline => \A i \in 1..Len(ev.encl) : ~ev.encl[i].fits
    /\ (ev.kind = "Line" /\ Len(ev.encl) > 0 /\ ~Innermost(ev.encl).fits)
           => ev.newline

\* A Potential-break was emitted as a newline directly inside a Group that did not
\* fit, after a Group that did fit was rendered without a newline
C1_Witness ==
    /\ ev.kind = "Line" /\ ev.newline
    /\ Len(ev.encl) >= 2 /\ ~Innermost(ev.encl).fits
    /\ \E i \in 1..Len(output) : output[i] = SP

\* C2: local flattening inside broken contexts.  A Group nested at any depth inside
\* a Group rendered in Break mode is rendered Flat whenever its own flat rendering
\* length is <= width minus the column at which the renderer reaches it.
C2_LocalFlattening ==
    (/\ ev.kind = "Group"
     /\ \E i \in 1..Len(ev.encl) : ev.encl[i].mode = "Break"
     /\ ev.flatLen <= width - ev.at)
        => ev.mode = "Flat"

\* A Group holding a Potential-break was rendered Flat directly inside a broken Group
C2_Witness ==
    /\ ev.kind = "Group" /\ ev.mode = "Flat"
    /\ Len(ev.encl) > 0 /\ Innermost(ev.encl).mode = "Break"
    /\ Len(open) > 0 /\ Innermost(open).direct
    /\ ev.flatLen <= width - ev.at

\* The output line that carries the text of the Flat Group numbered k, a Group
\* directly containing a Potential-break, has ended longer than width columns
FlatLineOverflows(k) ==
    /\ k > 0
    /\ \/ ev.newline /\ ev.lineFlat = k /\ ev.chars > width
       \/ pc = "done" /\ lineFlat = k /\ LineChars(output) > width

\* C3: the rendering respects the maximum line width.  Whenever a Group directly
\* containing a Potential-break is rendered Flat, the output line carrying it (with
\* the text that follows the Group up to the next newline) is at most width columns
\* long; the flat layout is never chosen when the broken layout would have kept the
\* line within width.  Stated in the form the claim's last sentence grants: no such
\* line is longer than width while breaking that Group would have kept every line
\* of the output within width.
C3_MaxLineWidth ==
    \A k \in 1..ngroups :
        FlatLineOverflows(k) => MaxLineChars(PrettyBroken(width, document, k)) > width

-----------------------------------------------------------------------------
(* Chains: a left-nested tree of && / || operators or of pipe stages *)

IsLink(t) ==
    \/ t.k = "Binary" /\ t.operator \in {"And", "Or"}
    \/ t.k \in {"Pipe", "FunctionPipe"}

\* The text of one operand, for an operand the style rules turn into one text
OperandText(e) == format_expr(e).s
IsAtomic(e) == format_expr(e).t = "Text"

LinkOperand(t) == IF t.k = "FunctionPipe" THEN t.func ELSE t.rhs

\* The operator-led continuation of a link: `&& x`, `|| x`, `| stage`
Continuation(t) ==
    (IF t.k = "Binary" THEN literal(t.operator) ELSE <<"|">>)
    \o <<SP>> \o OperandText(LinkOperand(t))

RECURSIVE ChainHead(_)
ChainHead(t) == IF IsLink(t) THEN ChainHead(t.lhs) ELSE t

RECURSIVE Continuations(_)
Continuations(t) ==
    IF IsLink(t) THEN Append(Continuations(t.lhs), Continuation(t)) ELSE <<>>

RECURSIVE AtomicOperands(_)
AtomicOperands(t) ==
    IF IsLink(t) THEN IsAtomic(LinkOperand(t)) /\ AtomicOperands(t.lhs)
    ELSE IsAtomic(t)

RECURSIVE Links(_)
Links(t) == IF IsLink(t) THEN 1 + Links(t.lhs) ELSE 0

\* The chain of the tree, at the root or as the constraint of a filter on `*`
InFilter == tree.k = "Filter" /\ tree.lhs.k = "Everything"
ChainOf == IF InFilter THEN tree.constraint ELSE tree

\* A chain of three or more operands, each a single text
IsLongChain == tree.k # "None" /\ Links(ChainOf) >= 2 /\ AtomicOperands(ChainOf)

RECURSIVE LayoutFrom(_, _, _)
LayoutFrom(conts, i, k) ==
    IF i > Len(conts) THEN <<>>
    ELSE (IF i <= k THEN <<SP>> ELSE <<NL, SP, SP>>) \o conts[i]
         \o LayoutFrom(conts, i + 1, k)

\* The chain with its first k continuations on the first line and each later one
\* on a line of its own, indented two columns
ChainLayout(k) ==
    (IF InFilter THEN <<"*", "[">> ELSE <<>>)
    \o OperandText(ChainHead(ChainOf)) \o LayoutFrom(Continuations(ChainOf), 1, k)
    \o (IF InFilter THEN <<"]">> ELSE <<>>)

-----------------------------------------------------------------------------
(* Empty collections *)

\* The sub-expressions of an expression
Children(t) ==
    CASE t.k \in {"Binary", "Pipe", "Dot"} -> <<t.lhs, t.rhs>>
      [] t.k = "Prefix" -> <<t.rhs>>
      [] t.k = "Postfix" -> <<t.lhs>>
      [] t.k \in {"Object", "Array"} -> t.expressions
      [] t.k = "Tuple" -> t.members
      [] t.k = "FunctionCall" -> t.arguments
      [] t.k = "Filter" -> <<t.lhs, t.constraint>>
      [] t.k = "Projection" -> <<t.lhs, t.object>>
      [] t.k = "FunctionPipe" -> <<t.lhs, t.func>>
      [] t.k \in {"Group", "Constraint"} -> <<t.expression>>
      [] t.k = "Slice" -> <<t.lhs, t.range>>
      [] t.k = "Range" -> <<t.start, t.end>>
      [] t.k = "Element" -> <<t.lhs, t.idx>>
      [] t.k = "ArrayTraversal" -> <<t.expr>>
      [] t.k = "Subscript" -> <<t.value>>
      [] OTHER -> <<>>

\* Whether t is a node of the sort named: an Object of no members, an Array of no
\* members, an array-traversal suffix
IsSort(sort, t) ==
    CASE sort = "EmptyObject" -> t.k = "Object" /\ Len(t.expressions) = 0
      [] sort = "EmptyArray" -> t.k = "Array" /\ Len(t.expressions) = 0
      [] sort = "Traversal" -> t.k = "ArrayTraversal"

RECURSIVE CountNodes(_, _)
RECURSIVE CountIn(_, _, _)
\* The number of nodes of t of the sort named
CountNodes(sort, t) ==
    (IF IsSort(sort, t) THEN 1 ELSE 0) + CountIn(sort, Children(t), 1)
CountIn(sort, ts, i) ==
    IF i > Len(ts) THEN 0 ELSE CountNodes(sort, ts[i]) + CountIn(sort, ts, i + 1)

\* The number of places where a is immediately followed by b in out
Adjacent(out, a, b) ==
    Cardinality({i \in 1..(Len(out) - 1) : out[i] = a /\ out[i + 1] = b})

HasNewline(out) == \E i \in 1..Len(out) : out[i] = NL

\* C5: empty-collection canonical form.  At every width an Object of no members
\* renders exactly as `{}` and an Array of no members exactly as `[]`, with nothing
\* between the brackets, also inside an object or array rendered in Break mode:
\* the output holds one `{}` for each empty Object of the tree and one `[]` for each
\* empty Array (and each array-traversal suffix), and is `{}` or `[]` alone when the
\* tree is the empty collection.
C5_EmptyCollections ==
    pc = "done" =>
        /\ Adjacent(output, "{", "}") = CountNodes("EmptyObject", tree)
        /\ Adjacent(output, "[", "]") =
               CountNodes("EmptyArray", tree) + CountNodes("Traversal", tree)
        /\ IsSort("EmptyObject", tree) => output = <<"{", "}">>
        /\ IsSort("EmptyArray", tree) => output = <<"[", "]">>

\* An empty Object was rendered inside a broken layout, at a width of 0
C5_Witness ==
    /\ pc = "done" /\ width = 0
    /\ CountNodes("EmptyObject", tree) > 0
    /\ HasNewline(output)

-----------------------------------------------------------------------------
(* The end of the output *)

RECURSIVE EndsInNewline(_)
\* out ends in a newline, or in a newline followed only by spaces
EndsInNewline(out) ==
    IF Len(out) = 0 THEN FALSE
    ELSE IF out[Len(out)] = NL THEN TRUE
    ELSE IF out[Len(out)] = SP THEN EndsInNewline(SubSeq(out, 1, Len(out) - 1))
    ELSE FALSE

\* C6: the rendered string never ends in a newline, nor in a newline followed only
\* by indentation: every Potential-break the renderer reaches is followed, in
\* document order, by a text fragment still on the work stack.
C6_NoTrailingNewline ==
    /\ ev.kind = "Line" => \E i \in 1..Len(items) : HasText(items[i].doc)
    /\ pc = "done" => ~EndsInNewline(output)

\* A rendering with a newline in it has ended
C6_Witness ==
    /\ pc = "done" /\ HasNewline(output)
    /\ ev.kind = "Text" /\ ev.chars <= ev.indent

-----------------------------------------------------------------------------
(* The column counter *)

\* C9: the column-counter invariant.  After every step of the render loop the
\* column counter is the number of characters emitted since the last newline (or
\* since the start), also for text whose characters take more than one byte.
C9_ColumnCountsCharacters ==
    pc \in {"render", "done"} => col = LineChars(output)

-----------------------------------------------------------------------------
(* The style rules applied to their inputs: format_expr to an expression,       *)
(* format_parse_result to a parse result with its function definitions          *)

FunctionDefinition(namespace, name, parameters, body) ==
    [namespace |-> namespace, name |-> name, parameters |-> parameters,
     body |-> body]
ParseResult(functions, expr) ==
    [k |-> "ParseResult", functions |-> functions, expr |-> expr]

\* The i-th function definition: i parameters, the i-th base tree as its body
FunctionAt(i) ==
    FunctionDefinition(<<"m">>, <<"f">>, [j \in 1..i |-> <<"x">>],
                       BaseTrees[((i - 1) % Len(BaseTrees)) + 1])

\* The parse results of 0..MaxFunctions function definitions
ParseResults ==
    Flatten([n \in 1..(MaxFunctions + 1) |->
                [i \in 1..Len(BaseTrees) |->
                    ParseResult([j \in 1..(n - 1) |-> FunctionAt(j)], BaseTrees[i])]])

InitStyle ==
    /\ pc = "input"
    /\ \/ \E i \in 1..Len(Trees) : tree = Trees[i]
       \/ \E i \in 1..Len(ParseResults) : tree = ParseResults[i]
    /\ width = 0
    /\ RenderIdle /\ QueryIdle /\ FileIdle

\* format_expr(expr) (format.rs:39)
ApplyFormatExpr ==
    /\ pc = "input"
    /\ tree.k # "ParseResult"
    /\ document' = format_expr(tree)
    /\ pc' = "formatted"
    /\ UNCHANGED <<tree, width, items, output, col, open, ev, lineFlat, ngroups>>
    /\ UNCHANGED queryVars /\ UNCHANGED fileVars

\* format_parse_result(result) (format.rs:7)
ApplyFormatParseResult ==
    /\ pc = "input"
    /\ tree.k = "ParseResult"
    /\ document' = format_parse_result(tree)
    /\ pc' = "formatted"
    /\ UNCHANGED <<tree, width, items, output, col, open, ev, lineFlat, ngroups>>
    /\ UNCHANGED queryVars /\ UNCHANGED fileVars

NextStyle ==
    \/ ApplyFormatExpr
    \/ ApplyFormatParseResult

SpecStyle == InitStyle /\ [][NextStyle]_vars

RECURSIVE NoRawNewline(_)
\* No Literal-text node of d holds a newline character
NoRawNewline(d) ==
    CASE d.t = "Text" -> \A i \in 1..Len(d.s) : d.s[i] # NL
      [] d.t = "Nest" -> NoRawNewline(d.doc)
      [] d.t = "Group" -> NoRawNewline(d.doc)
      [] d.t = "Concat" -> NoRawNewline(d.left) /\ NoRawNewline(d.right)
      [] OTHER -> TRUE

\* C10: every Literal-text node of every document the style rules produce, by
\* format_expr or by format_parse_result (function definitions and string literals
\* with newline or control characters included), holds no raw newline character.
C10_NoRawNewlineInText ==
    pc = "formatted" => NoRawNewline(document)

-----------------------------------------------------------------------------
(* format_query: lib.rs:42-53.  The parser is groq_parser's: whether it accepts *)
(* a non-empty query, and the tree it returns, are its choice.                  *)

\* char::is_whitespace for the characters of the model (lib.rs:43)
is_whitespace(c) == c \in {SP, NL, "\t", "\r"}

RECURSIVE trim_start(_)
trim_start(s) ==
    IF Len(s) > 0 /\ is_whitespace(Head(s)) THEN trim_start(Tail(s)) ELSE s

RECURSIVE trim_end(_)
trim_end(s) ==
    IF Len(s) > 0 /\ is_whitespace(s[Len(s)])
    THEN trim_end(SubSeq(s, 1, Len(s) - 1))
    ELSE s

\* str::trim left out: the query is taken as it is
trim_None(s) == s

\* str::trim (lib.rs:43)
trim(s) == trim_end(trim_start(s))

\* The values of Result<String, FormatError> (lib.rs:42, 57-62)
Ok(t) == [kind |-> "Ok", text |-> t]
ErrEmptyQuery == [kind |-> "EmptyQuery", text |-> <<>>]
ErrParse == [kind |-> "Parse", text |-> <<>>]

\* The answers of parser.parse(): an error, or one of these trees
ParsedTrees == << Atom(1), Obj(Operands(2, 0)), LeftChain("And", 3) >>
ParseAnswers ==
    <<[ok |-> FALSE, tree |-> NoTree]>>
    \o [i \in 1..Len(ParsedTrees) |-> [ok |-> TRUE, tree |-> ParsedTrees[i]]]

\* format_query, given the answer the parser gives if it is asked (lib.rs:42-53)
format_query(q, w, answer) ==
    IF Len(trim(q)) = 0 THEN ErrEmptyQuery
    ELSE IF ~answer.ok THEN ErrParse
    ELSE Ok(pretty(w, format_expr(answer.tree)))

QueryChars == {SP, NL, "a"}
Queries == UNION {[1..n -> QueryChars] : n \in 0..MaxQueryLen}

InitQuery ==
    /\ pc = "called"
    /\ query \in Queries
    /\ width \in {0, MaxWidth}
    /\ trimmed = <<>> /\ result = NoResult
    /\ tree = NoTree
    /\ RenderIdle /\ FileIdle

\* let query = query.trim() (lib.rs:43)
Trim ==
    /\ pc = "called"
    /\ trimmed' = trim(query)
    /\ pc' = "trimmed"
    /\ UNCHANGED <<tree, width, query, result>>
    /\ UNCHANGED renderVars /\ UNCHANGED fileVars

\* if query.is_empty() { return Err(FormatError::EmptyQuery) } (lib.rs:44-46)
ReturnEmptyQuery ==
    /\ pc = "trimmed"
    /\ Len(trimmed) = 0
    /\ result' = ErrEmptyQuery
    /\ pc' = "returned"
    /\ UNCHANGED <<tree, width, query, trimmed>>
    /\ UNCHANGED renderVars /\ UNCHANGED fileVars

\* parser.parse() returns a tree (lib.rs:48-49)
ParseOk ==
    /\ pc = "trimmed"
    /\ Len(trimmed) > 0
    /\ \E i \in 1..Len(ParsedTrees) : tree' = ParsedTrees[i]
    /\ pc' = "parsed"
    /\ UNCHANGED <<width, query, trimmed, result>>
    /\ UNCHANGED renderVars /\ UNCHANGED fileVars

\* parser.parse() fails: map_err(FormatError::Parse) and `?` (lib.rs:49)
ParseErr ==
    /\ pc = "trimmed"
    /\ Len(trimmed) > 0
    /\ result' = ErrParse
    /\ pc' = "returned"
    /\ UNCHANGED <<tree, width, query, trimmed>>
    /\ UNCHANGED renderVars /\ UNCHANGED fileVars

\* Ok(doc::pretty(width, format_expr(&tree))) (lib.rs:51-52)
ReturnFormatted ==
    /\ pc = "parsed"
    /\ document' = format_expr(tree)
    /\ result' = Ok(pretty(width, format_expr(tree)))
    /\ pc' = "returned"
    /\ UNCHANGED <<tree, width, query, trimmed>>
    /\ UNCHANGED <<items, output, col, open, ev, lineFlat, ngroups>>
    /\ UNCHANGED fileVars

NextQuery ==
    \/ Trim
    \/ ReturnEmptyQuery
    \/ ParseOk
    \/ ParseErr
    \/ ReturnFormatted

SpecQuery == InitQuery /\ [][NextQuery]_vars

\* The query is empty or holds only whitespace
IsBlank(q) == \A i \in 1..Len(q) : is_whitespace(q[i])

\* C7: format_query has two error outcomes and no partial output.  It returns
\* EmptyQuery exactly when the input is empty after trimming, decided before the
\* parser runs, so that whitespace-only input is never a Parse error; Parse when
\* the parser rejects the input; and formatted text only for a parsed query, the
\* only input to reach the style rules.
C7_ErrorOutcomes ==
    /\ pc = "returned" =>
          /\ result.kind \in {"Ok", "EmptyQuery", "Parse"}
          /\ result.kind = "EmptyQuery" <=> IsBlank(query)
          /\ result.kind = "Parse" => tree.k = "None" /\ ~IsBlank(query)
          /\ result.kind = "Ok" => tree.k # "None"
          /\ result.kind # "Ok" => result.text = <<>> /\ document = Nil
    /\ IsBlank(query) => pc \in {"called", "trimmed", "returned"} /\ tree.k = "None"
    /\ document # Nil => tree.k # "None"

\* A query of whitespace around nothing was answered EmptyQuery
C7_Witness ==
    /\ pc = "returned" /\ result.kind = "EmptyQuery"
    /\ Len(query) > 0

-----------------------------------------------------------------------------
(* process_file: main.rs:59-74.  `query` is the content of the file when the    *)
(* function is called, `target` its content now, `output` the standard output.  *)

\* path.parent().unwrap_or(Path::new(".")) for a path with a file name (main.rs:65)
parent(p) == p.dir

\* NamedTempFile::new_in(dir): an empty file in dir (main.rs:66)
new_in(dir) == [exists |-> TRUE, dir |-> dir, data |-> <<>>]

\* One write of writeln!(temp, "{}", formatted) put into the file at `path` itself
WriteChunk_InPlace(files, chunk) ==
    [files EXCEPT !.temp.data = @ \o chunk, !.target = files.temp.data \o chunk]

\* One write of writeln!(temp, "{}", formatted): chunk goes to the temp file (main.rs:67)
WriteChunk(files, chunk) == [files EXCEPT !.temp.data = @ \o chunk]

\* temp.persist(path): the rename of the temp file onto path (main.rs:68)
persist(files) == [temp |-> NoTemp, target |-> files.temp.data]

FileContents == << <<>>, <<SP, NL>>, <<"a">>, <<"a", NL>> >>
Paths == {[dir |-> "", name |-> "q.groq"], [dir |-> "d", name |-> "q.groq"]}

InitFile ==
    /\ pc = "called"
    /\ \E i \in 1..Len(FileContents) : query = FileContents[i] /\ target = FileContents[i]
    /\ path \in Paths
    /\ write \in BOOLEAN
    /\ width \in {0, MaxWidth}
    /\ temp = NoTemp /\ formatted = <<>>
    /\ trimmed = <<>> /\ result = NoResult
    /\ tree = NoTree
    /\ RenderIdle

Failed ==
    /\ pc' = "failed"
    /\ UNCHANGED <<tree, width, query, trimmed, target, formatted, write, path>>
    /\ UNCHANGED renderVars

\* let input = fs::read_to_string(path)? (main.rs:60)
ReadOk ==
    /\ pc = "called"
    /\ trimmed' = target
    /\ pc' = "read"
    /\ UNCHANGED <<tree, width, query, result, target, temp, formatted, write, path>>
    /\ UNCHANGED renderVars

ReadErr ==
    /\ pc = "called"
    /\ Failed /\ UNCHANGED <<result, temp>>

\* let formatted = format_query(&input, width)? (main.rs:61)
FormatQuery ==
    /\ pc = "read"
    /\ \E i \in 1..Len(ParseAnswers) :
          result' = format_query(trimmed, width, ParseAnswers[i])
    /\ formatted' = result'.text
    /\ pc' = IF result'.kind = "Ok" THEN "formatted" ELSE "failed"
    /\ UNCHANGED <<tree, width, query, trimmed, target, temp, write, path>>
    /\ UNCHANGED renderVars

\* println!("{}", formatted) (main.rs:70)
Println ==
    /\ pc = "formatted"
    /\ ~write
    /\ output' = formatted \o <<NL>>
    /\ pc' = "done"
    /\ UNCHANGED <<tree, width, document, items, col, open, ev, lineFlat, ngroups>>
    /\ UNCHANGED queryVars /\ UNCHANGED fileVars

\* let mut temp = NamedTempFile::new_in(dir)? (main.rs:65-66)
CreateTemp ==
    /\ pc = "formatted"
    /\ write
    /\ temp' = new_in(parent(path))
    /\ pc' = "created"
    /\ UNCHANGED <<tree, width, target, formatted, write, path>>
    /\ UNCHANGED renderVars /\ UNCHANGED queryVars

CreateTempErr ==
    /\ pc = "formatted"
    /\ write
    /\ Failed /\ UNCHANGED <<result, temp>>

\* What writeln!(temp, "{}", formatted) has still to write (main.rs:67)
Pending == SubSeq(formatted \o <<NL>>, Len(temp.data) + 1, Len(formatted) + 1)

\* writeln!(temp, "{}", formatted)?: one write of some of the pending bytes (main.rs:67)
Write ==
    /\ pc = "created"
    /\ \E n \in 1..Len(Pending) :
          LET files == WriteChunk([temp |-> temp, target |-> target],
                                  SubSeq(Pending, 1, n))
          IN  /\ temp' = files.temp
              /\ target' = files.target
              /\ pc' = IF n = Len(Pending) THEN "written" ELSE "created"
    /\ UNCHANGED <<tree, width, formatted, write, path>>
    /\ UNCHANGED renderVars /\ UNCHANGED queryVars

\* A write fails: `?` returns and the temp file is dropped, which deletes it
WriteErr ==
    /\ pc = "created"
    /\ temp' = NoTemp
    /\ Failed /\ UNCHANGED result

\* temp.persist(path)? (main.rs:68)
Persist ==
    /\ pc = "written"
    /\ LET files == persist([temp |-> temp, target |-> target])
       IN  temp' = files.temp /\ target' = files.target
    /\ pc' = "done"
    /\ UNCHANGED <<tree, width, formatted, write, path>>
    /\ UNCHANGED renderVars /\ UNCHANGED queryVars

\* The rename fails: `?` returns, the target is as it was
PersistErr ==
    /\ pc = "written"
    /\ temp' = NoTemp
    /\ Failed /\ UNCHANGED result

\* The process dies: the files stay as they are
Crash ==
    /\ pc \in {"called", "read", "formatted", "created", "written"}
    /\ pc' = "crashed"
    /\ UNCHANGED <<tree, width>>
    /\ UNCHANGED renderVars /\ UNCHANGED queryVars /\ UNCHANGED fileVars

NextFile ==
    \/ ReadOk
    \/ ReadErr
    \/ FormatQuery
    \/ Println
    \/ CreateTemp
    \/ CreateTempErr
    \/ Write
    \/ WriteErr
    \/ Persist
    \/ PersistErr
    \/ Crash

SpecFile == InitFile /\ [][NextFile]_vars

\* C8: atomic in-place write.  At every point of process_file, a crash or an I/O
\* error at any step and a read or format failure included, the target holds its
\* complete original content or the complete formatted output followed by one
\* newline; it is replaced only by the rename of the fully written temp file, which
\* lies in the target's directory, and only after formatting succeeded.
C8_AtomicWrite ==
    /\ \/ target = query
       \/ /\ pc = "done" /\ write /\ result.kind = "Ok"
          /\ target = result.text \o <<NL>>
    /\ temp.exists => temp.dir = path.dir /\ result.kind = "Ok"
    /\ pc = "written" => temp.data = result.text \o <<NL>>

\* The process died with the temp file partly written
C8_Witness ==
    /\ pc = "crashed"
    /\ temp.exists /\ Len(temp.data) > 0 /\ Len(temp.data) <= Len(formatted)
    /\ target = query

-----------------------------------------------------------------------------
(* The fits checks the renderer starts *)

\* C11: in every fits check started by the renderer every entry pushed on the
\* checker's stack carries mode Flat, so the Break-mode branch for Potential-breaks
\* is never taken, and the check returns true exactly when the total length of all
\* text and flat substitutes in the Group's subtree is <= the budget.
C11_FitsAlwaysFlat ==
    ev.kind = "Group"
        => /\ \A i \in 1..Len(ev.pushed) : ev.pushed[i].mode = "Flat"
           /\ ev.fits <=> (ev.flatLen <= ev.budget)

\* A fits check started for a Group inside a broken Group pushed a Potential-break
\* and a nested Group, and returned true
C11_Witness ==
    /\ ev.kind = "Group" /\ ev.fits
    /\ Len(ev.encl) > 0 /\ Innermost(ev.encl).mode = "Break"
    /\ \E i \in 1..Len(ev.pushed) : ev.pushed[i].t = "Line"
    /\ \E i \in 2..Len(ev.pushed) : ev.pushed[i].t = "Group"

-----------------------------------------------------------------------------
(* The mode of the root item: doc.rs:114-118.  A document is rendered by pretty,  *)
(* into `output`, and by the same loop with its root item in mode Break, into     *)
(* `formatted`.                                                                    *)

\* pretty with its root item in the given mode (doc.rs:111-177 with the mode of
\* doc.rs:116 as a parameter)
pretty_seeded(mode, w, doc) ==
    RenderLoop(w, [items |-> <<Item(0, mode, doc)>>, output |-> <<>>, col |-> 0])

\* Documents built with the builders of Doc, with Potential-breaks outside and
\* inside Groups
BuiltDocs ==
    LET a == text(<<"a">>)
        b == text(<<"b", "b">>)
        pair == concat(<<a, line, b>>)
    IN  << Nil, a, line, line_or_empty, pair, nest(2, pair), group(pair),
           nest(2, group(pair)),
           concat(<<text(<<"(">>), group(pair), text(<<")">>)>>),
           concat(<<group(pair), line, b>>),
           concat(<<a, nest(2, concat(<<line, group(pair)>>))>>),
           group(concat(<<a, nest(2, concat(<<line, group(pair)>>))>>)),
           join(concat(<<text(<<",">>), line>>), <<a, b, a>>) >>

SeedDocs == BuiltDocs \o [i \in 1..Len(Trees) |-> format_expr(Trees[i])]

InitSeed ==
    /\ pc = "input"
    /\ \E i \in 1..Len(SeedDocs) : document = SeedDocs[i]
    /\ width \in 0..MaxWidth
    /\ tree = NoTree
    /\ items = <<>> /\ output = <<>> /\ col = 0
    /\ open = <<>> /\ ev = NoEvent /\ lineFlat = 0 /\ ngroups = 0
    /\ QueryIdle /\ FileIdle

\* pretty(width, doc): the root item in mode Flat (doc.rs:111-177)
PrettyFlat ==
    /\ pc = "input"
    /\ output' = pretty(width, document)
    /\ pc' = "flat"
    /\ UNCHANGED <<tree, width, document, items, col, open, ev, lineFlat, ngroups>>
    /\ UNCHANGED queryVars /\ UNCHANGED fileVars

\* The same loop with the root item in mode Break
PrettyBreak ==
    /\ pc = "flat"
    /\ formatted' = pretty_seeded("Break", width, document)
    /\ pc' = "both"
    /\ UNCHANGED <<tree, width, target, temp, write, path>>
    /\ UNCHANGED renderVars /\ UNCHANGED queryVars

NextSeed ==
    \/ PrettyFlat
    \/ PrettyBreak

SpecSeed == InitSeed /\ [][NextSeed]_vars

\* C12 as claimed: the mode of the root item is irrelevant unless the root is a
\* Group.  For every document whose root is not a Group and every width, the render
\* seeded with Flat and the render seeded with Break produce the same output.
C12_SeedIrrelevant ==
    (pc = "both" /\ document.t # "Group") => output = formatted

\* C12 as amended: the mode of the root item is irrelevant for every document
\* whose Potential-breaks all lie inside Groups, whatever its root; the two renders
\* of such a document produce the same output at every width.
C12_SeedIrrelevantWhenGrouped ==
    (pc = "both" /\ DirectLines(document) = 0) => output = formatted

\* Both renders of a document whose root is no Group, holding a Group that broke
C12_Witness ==
    /\ pc = "both"
    /\ document.t = "Concat" /\ DirectLines(document) = 0
    /\ HasNewline(output) /\ output = formatted

-----------------------------------------------------------------------------
(* Termination and the order of the walk *)

\* The sequential code of format_query keeps running until pretty returns: weak
\* fairness of Next, written as the disjunction that WF_vars(Next) stands for,
\*     []<>(~ENABLED <<Next>>_vars) \/ []<><<Next>>_vars,
\* with the enabling condition of Next spelled out.  Next is enabled in every
\* state but the last one, which WalkInOrder checks as NeverStuck.
SpecLive == Spec /\ ([]<>(pc = "done") \/ []<><<Next>>_vars)

\* Before the return some step of Next can be taken: the statement to run next
\* exists, and a popped item matches one arm of the match (doc.rs:120-173)
NeverStuck ==
    \/ pc \in {"parsed", "formatted", "done"}
    \/ pc = "render" /\ Len(items) = 0
    \/ /\ pc = "render" /\ Len(items) > 0
       /\ Top(items).doc.t \in {"Nil", "Text", "Line", "Nest", "Concat", "Group"}

RECURSIVE PreOrder(_)
\* The nodes of a document in left-to-right document order, a node before its parts
PreOrder(d) ==
    CASE d.t = "Nest" -> <<d>> \o PreOrder(d.doc)
      [] d.t = "Group" -> <<d>> \o PreOrder(d.doc)
      [] d.t = "Concat" -> (<<d>> \o PreOrder(d.left)) \o PreOrder(d.right)
      [] OTHER -> <<d>>

\* The number of Group nodes among the nodes ns
Groups(ns) == Len(SelectSeq(ns, LAMBDA d : d.t = "Group"))

\* The pops so far are the first nodes of the document in document order, one pop
\* for each; a Potential-break is rendered in the mode decided when the innermost
\* Group around it was popped; at the return the stack is empty, every node was
\* popped and one decision was made for each Group
WalkInOrder ==
    /\ NeverStuck
    /\ ev.np <= Len(PreOrder(document))
    /\ ev.np > 0 => ev.node = PreOrder(document)[ev.np]
    /\ ngroups = Groups(SubSeq(PreOrder(document), 1, ev.np))
    /\ (ev.kind = "Line" /\ Len(ev.encl) > 0) => ev.mode = Innermost(ev.encl).mode
    /\ pc = "done" => Len(items) = 0 /\ ev.np = Len(PreOrder(document))

\* C13: for every finite document and every width the render loop terminates with
\* an empty work stack, having popped every document node exactly once in
\* left-to-right document order; the Flat/Break decision is made exactly once for
\* each Group, when it is popped, and is not revisited.
C13_TerminatesInOrder == []WalkInOrder /\ <>(pc = "done" /\ Len(items) = 0)

\* pretty returned after a walk that decided three Groups or more, one of them
\* as Break
C13_Witness ==
    /\ pc = "done" /\ Len(items) = 0
    /\ ev.np = Len(PreOrder(document)) /\ ngroups >= 3
    /\ HasNewline(output)

-----------------------------------------------------------------------------
(* Indentation *)

RECURSIVE NestSum(_, _, _)
\* The sum of the amounts of the Nest nodes that enclose the n-th node of d in
\* document order, added to acc
NestSum(d, n, acc) ==
    IF n = 1 THEN acc
    ELSE CASE d.t = "Nest" -> NestSum(d.doc, n - 1, acc + d.indent)
           [] d.t = "Group" -> NestSum(d.doc, n - 1, acc)
           [] d.t = "Concat" ->
                 LET l == Len(PreOrder(d.left))
                 IN  IF n - 1 <= l THEN NestSum(d.left, n - 1, acc)
                     ELSE NestSum(d.right, n - 1 - l, acc)

\* The last n characters of out
Last(out, n) == SubSeq(out, Len(out) - n + 1, Len(out))

\* C14: indentation is the additive sum of enclosing Nest amounts.  Every
\* Potential-break rendered in Break mode emits one newline followed by exactly k
\* spaces and sets the column to k, k being the sum of the amounts of all Nest nodes
\* that enclose it in the document; a Nest's amount does not apply to breaks after
\* that Nest's subtree.
C14_IndentIsNestSum ==
    (ev.kind = "Line" /\ ev.mode = "Break")
        => LET k == NestSum(document, ev.np, 0)
           IN  /\ ev.newline
               /\ Len(output) >= k + 1
               /\ Last(output, k + 1) = <<NL>> \o spaces(k)
               /\ col = k

\* A Potential-break to the right of a Nest inside a Nest was rendered as a newline
\* and two spaces, below a line indented by four
C14_Witness ==
    /\ ev.kind = "Line" /\ ev.mode = "Break"
    /\ NestSum(document, ev.np, 0) = 2 /\ col = 2
    /\ \E i \in 1..(Len(output) - 8) :
          SubSeq(output, i, i + 4) = <<NL, SP, SP, SP, SP>>

====
